---- MODULE Spec2Model ----
(***************************************************************************)
(* A model of run_scrape.py: main() stages raw files in a temporary        *)
(* directory, loads the meteorological and the air-quality dataset with    *)
(* load_dataset, outer-joins them on timestamp and writes the result.      *)
(*                                                                         *)
(* Values of a cell are optional: None is the missing-value marker         *)
(* (None / NaN / NaT), <<v>> is the present value v.  Calendar times are   *)
(* whole seconds after a common reference midnight.                        *)
(***************************************************************************)
EXTENDS Integers, Sequences, FiniteSets, TLC

\* Largest number of files one query of Google Drive lists.
MaxFiles == 2
\* Largest number of records the files of one dataset hold together.
MaxRows == 1

None == <<>>
Some(v) == <<v>>

Kinds == {"met", "aq"}

VARIABLES
    pc,           \* position of main()
    tmpExists,    \* os.path.exists(LOCAL_DIR)
    config,       \* what fields.json holds
    kind,         \* the dataset of the current load_dataset call
    remaining,    \* files of os.listdir(tempdir) not yet loaded
    dfs,          \* load_dataset's list of decoded frames
    records,      \* load_met_file: importer.records of the file being loaded
    clean_fields, \* load_met_file: the projected and converted records
    data,         \* met_data and aq_data
    combined,     \* the merged frame
    output,       \* the file at args.output
    printed,      \* the messages printed so far
    exc,          \* the exception that escaped main(), and where it was raised
    cleanupCalls, \* calls of cleanup() since LOCAL_DIR was created
    invoked,      \* the loading functions called so far
    decodedKinds  \* the kinds a load function has returned a frame for

vars == <<pc, tmpExists, config, kind, remaining, dfs, records, clean_fields,
          data, combined, output, printed, exc, cleanupCalls, invoked,
          decodedKinds>>

(***************************************************************************)
(* Frames                                                                  *)
(***************************************************************************)
NoFrame == [tag |-> "unset", cols |-> {}, rows |-> <<>>]
NoneFrame == [tag |-> "None", cols |-> {}, rows |-> <<>>]
IsFrame(df) == df.tag = "DataFrame"

\* pd.DataFrame(list of dicts): the columns are the keys of the dicts, so a
\* list without dicts gives a frame without columns.
DataFrame(dicts) ==
    [tag |-> "DataFrame",
     cols |-> UNION {DOMAIN dicts[i] : i \in 1..Len(dicts)},
     rows |-> dicts]

\* df.rename(columns=fields)
Rename(df, fields) ==
    LET new(c) == IF c \in DOMAIN fields THEN fields[c] ELSE c
        old(n) == CHOOSE c \in df.cols : new(c) = n
    IN  [tag |-> "DataFrame",
         cols |-> {new(c) : c \in df.cols},
         rows |-> [i \in 1..Len(df.rows) |->
                     [n \in {new(c) : c \in df.cols} |-> df.rows[i][old(n)]]]]

RECURSIVE FlattenRows(_, _)
FlattenRows(frames, cols) ==
    IF frames = <<>> THEN <<>>
    ELSE LET f == Head(frames)
         IN  [i \in 1..Len(f.rows) |->
                [c \in cols |-> IF c \in f.cols THEN f.rows[i][c] ELSE None]]
             \o FlattenRows(Tail(frames), cols)

\* pd.concat(dfs): the union of the columns, the rows one frame after another,
\* a column a frame lacks filled with the missing-value marker.
Concat(frames) ==
    LET cols == UNION {frames[i].cols : i \in 1..Len(frames)}
    IN  [tag |-> "DataFrame", cols |-> cols, rows |-> FlattenRows(frames, cols)]

AllMissing(row) == \A c \in DOMAIN row : row[c] = None


\* combined.dropna(how='any') would drop every row with a missing cell.
DropNaAny(df) ==
    [df EXCEPT !.rows = SelectSeq(df.rows,
                            LAMBDA row : \A c \in DOMAIN row : row[c] # None)]

\* combined.dropna(inplace=True, how='all'): a row goes when every column of
\* it, the timestamp included, is missing.
DropNaAll(df) ==
    [df EXCEPT !.rows = SelectSeq(df.rows, LAMBDA row : ~AllMissing(row))]

(***************************************************************************)
(* pd.merge(left, right, on="timestamp", how="outer")                       *)
(***************************************************************************)
KeysOf(df) == {df.rows[i]["timestamp"] : i \in 1..Len(df.rows)}

\* The join keys in the order of the result: ascending, the missing key last.
RECURSIVE SortedKeys(_)
SortedKeys(S) ==
    IF S = {} THEN <<>>
    ELSE LET present == S \ {None}
             least == IF present = {} THEN None
                      ELSE CHOOSE k \in present : \A j \in present : k[1] <= j[1]
         IN  <<least>> \o SortedKeys(S \ {least})

WithKey(df, k) == SelectSeq(df.rows, LAMBDA row : row["timestamp"] = k)

\* One row of the result: the cells of the left row l and of the right row r,
\* the cells of a side that has no row (hasL, hasR false) missing.
JoinRow(k, lcols, rcols, l, hasL, r, hasR) ==
    [c \in lcols \cup rcols |->
        IF c = "timestamp" THEN k
        ELSE IF c \in lcols THEN (IF hasL THEN l[c] ELSE None)
        ELSE (IF hasR THEN r[c] ELSE None)]

\* The rows of the result for one key: every pairing of a left and a right
\* row that carry it (missing keys pair with each other, as in pandas), or
\* the rows of the only side that carries it.
RowsForKey(left, right, k, keepLeftOnly, keepRightOnly) ==
    LET L == WithKey(left, k)
        R == WithKey(right, k)
    IN  IF L # <<>> /\ R # <<>>
        THEN [n \in 1..(Len(L) * Len(R)) |->
                JoinRow(k, left.cols, right.cols,
                        L[((n - 1) \div Len(R)) + 1], TRUE,
                        R[((n - 1) % Len(R)) + 1], TRUE)]
        ELSE IF L # <<>>
        THEN IF keepLeftOnly
             THEN [n \in 1..Len(L) |->
                     JoinRow(k, left.cols, right.cols, L[n], TRUE, L[n], FALSE)]
             ELSE <<>>
        ELSE IF keepRightOnly
             THEN [n \in 1..Len(R) |->
                     JoinRow(k, left.cols, right.cols, R[n], FALSE, R[n], TRUE)]
             ELSE <<>>

RECURSIVE JoinRows(_, _, _, _, _)
JoinRows(left, right, keys, keepLeftOnly, keepRightOnly) ==
    IF keys = <<>> THEN <<>>
    ELSE RowsForKey(left, right, Head(keys), keepLeftOnly, keepRightOnly)
         \o JoinRows(left, right, Tail(keys), keepLeftOnly, keepRightOnly)

\* how="left": the rows of the right frame without a partner are lost.
MergeLeft(left, right) ==
    [tag |-> "DataFrame",
     cols |-> left.cols \cup right.cols,
     rows |-> JoinRows(left, right, SortedKeys(KeysOf(left) \cup KeysOf(right)),
                       TRUE, FALSE)]

\* how="outer"
Merge(left, right) ==
    [tag |-> "DataFrame",
     cols |-> left.cols \cup right.cols,
     rows |-> JoinRows(left, right, SortedKeys(KeysOf(left) \cup KeysOf(right)),
                       TRUE, TRUE)]

(***************************************************************************)
(* Conversions                                                             *)
(***************************************************************************)
\* weatherlink's convert_timestamp_to_datetime: the device packs the time of
\* day as hour * 100 + minute.
ConvertTimestampToDatetime(ts) == (ts \div 100) * 3600 + (ts % 100) * 60

\* weatherlink's convert_fahrenheit_to_celsius, in whole degrees.
ConvertFahrenheitToCelsius(f) == ((f - 32) * 5) \div 9

\* weatherlink's convert_miles_per_hour_to_meters_per_second (1 mph is
\* 0.44704 m/s), the result in centimetres per second.
ConvertMilesPerHourToMetersPerSecond(v) == (v * 44704) \div 1000

\* convert_excel_time on one cell.  The raw value counts half seconds after
\* the reference midnight; .dt.round("S") rounds it to a whole second, a
\* half to the even second.  A missing cell stays missing (NaT).
ConvertExcelTime(cell) ==
    IF cell = None THEN None
    ELSE LET q == cell[1] \div 2
             r == cell[1] % 2
         IN  Some(IF r = 0 THEN q ELSE IF q % 2 = 0 THEN q ELSE q + 1)


(***************************************************************************)
(* What the run reads: fields.json and the raw files                       *)
(***************************************************************************)
\* fields.json is absent, is not JSON, is JSON but no object, is an object
\* without one of the two keys, or is complete.
ConfigKinds == {"missing", "badjson", "notdict", "nomet", "noaq", "ok"}

\* field_names["meteorological"] and field_names["airquality"] of a complete
\* fields.json: raw label to clean label.
MetFields ==
    [timestamp |-> "timestamp", temperature_outside |-> "Temperature",
     wind_speed |-> "Wind speed", humidity_outside |-> "Relative humidity"]
AqFields == [TheTime |-> "timestamp", NO_ppb |-> "NO"]

\* A record of a .wlk file as the Importer yields it.
MetRecords ==
    [timestamp : {None, Some(1)},
     temperature_outside : {None, Some(50)},
     wind_speed : {None, Some(10)},
     humidity_outside : {Some(40)},
     rain : {Some(0)}]

\* A line of an air-quality log.
CsvRows ==
    [TheTime : {None, Some(120), Some(239)},
     NO_ppb : {None, Some(250)},
     Flow : {Some(1)}]

SeqsUpTo(S, n) == UNION {[1..m -> S] : m \in 0..n}

TotalRows(frames) == Len(FlattenRows(frames, {}))

(***************************************************************************)
(* load_met_file and load_airquality_file                                  *)
(***************************************************************************)
\* {field: row[field] for field in fields.keys()}
Project(row, fields) == [f \in DOMAIN fields |-> row[f]]

\* The loop body without the conversion of wind_speed.
ConvertRecordNoWind(record) ==
    [f \in DOMAIN record |->
        IF f = "timestamp" /\ record[f] # None
        THEN Some(ConvertTimestampToDatetime(record[f][1]))
        ELSE IF f = "temperature_outside" /\ record[f] # None
        THEN Some(ConvertFahrenheitToCelsius(record[f][1]))
        ELSE record[f]]

\* The body of "for record in clean_fields": each of the three fields is
\* converted when it is not None.
ConvertRecord(record) ==
    [f \in DOMAIN record |->
        IF f = "timestamp" /\ record[f] # None
        THEN Some(ConvertTimestampToDatetime(record[f][1]))
        ELSE IF f = "temperature_outside" /\ record[f] # None
        THEN Some(ConvertFahrenheitToCelsius(record[f][1]))
        ELSE IF f = "wind_speed" /\ record[f] # None
        THEN Some(ConvertMilesPerHourToMetersPerSecond(record[f][1]))
        ELSE record[f]]

\* clean_fields after the conversion loop.
CleanFields(recs, fields) ==
    [i \in 1..Len(recs) |-> ConvertRecord(Project(recs[i], fields))]

\* pd.read_csv(filename, usecols=fields.keys(), header=0): the columns are
\* there even when the file has no line after the header.
ReadCsv(lines, fields) ==
    [tag |-> "DataFrame",
     cols |-> DOMAIN fields,
     rows |-> [i \in 1..Len(lines) |-> Project(lines[i], fields)]]

\* df["timestamp"] = convert_excel_time(df["timestamp"])
ConvertTimestampColumn(df) ==
    [df EXCEPT !.rows = [i \in 1..Len(df.rows) |->
        [df.rows[i] EXCEPT !["timestamp"] = ConvertExcelTime(@)]]]

\* The frame load_airquality_file returns for a file pandas can read.
AirqualityFrame(lines, fields) ==
    ConvertTimestampColumn(Rename(ReadCsv(lines, fields), fields))


(***************************************************************************)
(* main()                                                                  *)
(***************************************************************************)
NoOutput == [state |-> "absent", rows |-> <<>>]
NoException == [type |-> "none", at |-> "none"]

Init ==
    /\ pc = "start"
    /\ tmpExists \in BOOLEAN
    /\ config \in ConfigKinds
    /\ kind = "met"
    /\ remaining = 0
    /\ dfs = <<>>
    /\ records = <<>>
    /\ clean_fields = <<>>
    /\ data = [k \in Kinds |-> NoFrame]
    /\ combined = NoFrame
    /\ output = NoOutput
    /\ printed = {}
    /\ exc = NoException
    /\ cleanupCalls = 0
    /\ invoked = {}
    /\ decodedKinds = {}

loaderVars == <<kind, remaining, dfs, records, clean_fields, data, invoked,
                decodedKinds>>

\* A return of main() after print(message) and cleanup().
PrintCleanupReturn(message) ==
    /\ printed' = printed \cup {message}
    /\ tmpExists' = FALSE
    /\ cleanupCalls' = cleanupCalls + 1
    /\ pc' = "done"
    /\ exc' = exc

\* An exception nothing in main() catches.
Raise(type, at) ==
    /\ pc' = "crashed"
    /\ exc' = [type |-> type, at |-> at]

\* "Create local directory to store data": a directory a former run left is
\* removed first.
Start ==
    /\ pc = "start"
    /\ tmpExists' = TRUE
    /\ cleanupCalls' = 0
    /\ pc' = "auth"
    /\ UNCHANGED <<config, loaderVars, combined, output, printed, exc>>

\* "Authenticate with Google Drive"
Authenticate ==
    /\ pc = "auth"
    /\ \E authenticated \in BOOLEAN :
        IF authenticated
        THEN /\ pc' = "open_config"
             /\ UNCHANGED <<tmpExists, printed, exc, cleanupCalls>>
        ELSE PrintCleanupReturn("Error connecting to service")
    /\ UNCHANGED <<config, loaderVars, combined, output>>

\* "Load field mapping dictionary": open() and json.load().  The mapping is
\* returned to the caller unchecked when it parses.
LoadFieldNames ==
    /\ pc = "open_config"
    /\ IF config = "missing"
       THEN PrintCleanupReturn("Error: cannot open required file")
       ELSE IF config = "badjson"
       THEN PrintCleanupReturn("Error: cannot parse as JSON")
       ELSE /\ pc' = "fields"
            /\ UNCHANGED <<tmpExists, printed, exc, cleanupCalls>>
    /\ UNCHANGED <<config, loaderVars, combined, output>>

\* The lookups of the two keys with a KeyError that only prints the message.
ExtractFieldsNoReturn ==
    /\ pc = "fields"
    /\ IF config = "notdict"
       THEN /\ Raise("TypeError", "main")
            /\ UNCHANGED <<tmpExists, printed, cleanupCalls>>
       ELSE /\ pc' = "load_dataset"
            /\ printed' = IF config \in {"nomet", "noaq"}
                          THEN printed \cup {"Error: must contain both objects"}
                          ELSE printed
            /\ UNCHANGED <<tmpExists, exc, cleanupCalls>>
    /\ UNCHANGED <<config, loaderVars, combined, output>>

\* field_names["meteorological"] and field_names["airquality"]: a KeyError is
\* caught, a value that is no mapping raises a TypeError nothing catches.
ExtractFields ==
    /\ pc = "fields"
    /\ IF config \in {"nomet", "noaq"}
       THEN PrintCleanupReturn("Error: must contain both objects")
       ELSE IF config = "notdict"
       THEN /\ Raise("TypeError", "main")
            /\ UNCHANGED <<tmpExists, printed, cleanupCalls>>
       ELSE /\ pc' = "load_dataset"
            /\ UNCHANGED <<tmpExists, printed, exc, cleanupCalls>>
    /\ UNCHANGED <<config, loaderVars, combined, output>>

mainVars == <<tmpExists, config, combined, output, cleanupCalls>>

\* load_dataset up to its loop: the files the query finds are downloaded to
\* tempdir and listed.
ListFiles ==
    /\ pc = "load_dataset"
    /\ \E n \in 0..MaxFiles : remaining' = n
    /\ dfs' = <<>>
    /\ invoked' = invoked \cup {"load_dataset"}
    /\ pc' = "loop"
    /\ UNCHANGED <<mainVars, kind, records, clean_fields, data, printed, exc,
                   decodedKinds>>

\* One turn of "for fn in os.listdir(tempdir)" with load_met_file.
LoadMetFile ==
    /\ pc = "loop"
    /\ kind = "met"
    /\ remaining > 0
    /\ remaining' = remaining - 1
    /\ invoked' = invoked \cup {"load_met_file"}
    /\ \/ \* Importer raises FileNotFoundError: None is returned
          /\ printed' = printed \cup {"Cannot find file"}
          /\ UNCHANGED <<pc, exc, dfs, records, clean_fields, decodedKinds>>
       \/ \* the Importer rejects the structure of the file
          /\ Raise("ImporterError", "load_met_file")
          /\ UNCHANGED <<printed, dfs, records, clean_fields, decodedKinds>>
       \/ \* the Importer reads the file
          \E recs \in SeqsUpTo(MetRecords, MaxRows - TotalRows(dfs)) :
            /\ records' = recs
            /\ clean_fields' = CleanFields(recs, MetFields)
            /\ dfs' = Append(dfs, Rename(DataFrame(clean_fields'), MetFields))
            /\ decodedKinds' = decodedKinds \cup {"met"}
            /\ UNCHANGED <<pc, exc, printed>>
    /\ UNCHANGED <<mainVars, kind, data>>

\* One turn of the loop with load_airquality_file.
LoadAirqualityFile ==
    /\ pc = "loop"
    /\ kind = "aq"
    /\ remaining > 0
    /\ remaining' = remaining - 1
    /\ invoked' = invoked \cup {"load_airquality_file"}
    /\ \/ \* pd.errors.EmptyDataError
          /\ printed' = printed \cup {"is empty, skipping contents"}
          /\ UNCHANGED <<dfs, decodedKinds>>
       \/ \* pd.errors.ParserError or ValueError
          /\ printed' = printed \cup {"Unable to parse as CSV, skipping contents"}
          /\ UNCHANGED <<dfs, decodedKinds>>
       \/ \E lines \in SeqsUpTo(CsvRows, MaxRows - TotalRows(dfs)) :
            /\ dfs' = Append(dfs, AirqualityFrame(lines, AqFields))
            /\ decodedKinds' = decodedKinds \cup {"aq"}
            /\ printed' = printed
    /\ UNCHANGED <<mainVars, pc, exc, kind, records, clean_fields, data>>

\* "Combine all clean datasets into 1 frame and drop empty values", and the
\* return to main(), which loads the air-quality data after the
\* meteorological data.
Combine ==
    /\ pc = "loop"
    /\ remaining = 0
    /\ data' = [data EXCEPT ![kind] =
                  IF Len(dfs) >= 1 THEN DropNaAll(Concat(dfs)) ELSE NoneFrame]
    /\ records' = <<>>
    /\ clean_fields' = <<>>
    /\ IF kind = "met"
       THEN kind' = "aq" /\ pc' = "load_dataset"
       ELSE kind' = kind /\ pc' = "check"
    /\ UNCHANGED <<mainVars, remaining, dfs, printed, exc, invoked,
                   decodedKinds>>

\* "if met_data is None" and "if aq_data is None"
CheckData ==
    /\ pc = "check"
    /\ IF data["met"].tag = "None"
       THEN PrintCleanupReturn("Error: no clean meteorological data loaded")
       ELSE IF data["aq"].tag = "None"
       THEN PrintCleanupReturn("Error: no clean air quality data loaded")
       ELSE /\ pc' = "merge"
            /\ UNCHANGED <<tmpExists, printed, exc, cleanupCalls>>
    /\ UNCHANGED <<config, loaderVars, combined, output>>

\* "Combine into a data frame": a frame without a timestamp column makes
\* pd.merge raise a KeyError.
MergeData ==
    /\ pc = "merge"
    /\ IF "timestamp" \in data["met"].cols /\ "timestamp" \in data["aq"].cols
       THEN /\ combined' = Merge(data["met"], data["aq"])
            /\ pc' = "write"
            /\ exc' = exc
       ELSE /\ Raise("KeyError", "pd.merge")
            /\ combined' = combined
    /\ UNCHANGED <<tmpExists, config, output, cleanupCalls, loaderVars, printed>>

\* "save to file" and the cleanup() that ends main().  After a
\* FileNotFoundError the handler calls cleanup() and main() calls it again;
\* shutil.rmtree then finds no directory.  Another error of to_csv is not
\* caught; a disk that fills up leaves the lines written so far.
WriteOutput ==
    /\ pc = "write"
    /\ \/ /\ output' = [state |-> "written", rows |-> combined.rows]
          /\ PrintCleanupReturn("Cleaned data saved")
       \/ /\ printed' = printed \cup {"Cannot save"}
          /\ tmpExists' = FALSE
          /\ cleanupCalls' = cleanupCalls + 2
          /\ Raise("FileNotFoundError", "cleanup")
          /\ output' = output
       \/ /\ Raise("PermissionError", "to_csv")
          /\ UNCHANGED <<tmpExists, cleanupCalls, printed, output>>
       \/ /\ Raise("OSError", "to_csv")
          /\ output' = [state |-> "partial", rows |-> <<>>]
          /\ UNCHANGED <<tmpExists, cleanupCalls, printed>>
    /\ UNCHANGED <<config, combined, loaderVars>>

Next ==
    \/ Start
    \/ Authenticate
    \/ LoadFieldNames
    \/ ExtractFields
    \/ ListFiles
    \/ LoadMetFile
    \/ LoadAirqualityFile
    \/ Combine
    \/ CheckData
    \/ MergeData
    \/ WriteOutput

Spec == Init /\ [][Next]_vars


(***************************************************************************)
(* Properties                                                              *)
(***************************************************************************)
Terminated == pc \in {"done", "crashed"}

RowsOf(df) == {df.rows[i] : i \in 1..Len(df.rows)}

\* C1: a meteorological file the decoder rejects is skipped with a logged
\* message and no exception leaves load_dataset: the run never ends with an
\* exception raised in load_met_file.
C1_CorruptMetFileIsSkipped == exc.at # "load_met_file"

\* load_dataset has been called for kind k.
LoadDatasetCalled(k) ==
    /\ "load_dataset" \in invoked
    /\ k = "aq" => (kind = "aq" /\ pc # "load_dataset")

\* C2: when the run has ended and no file of a kind load_dataset was called
\* for has decoded, load_dataset has returned None for that kind, main has
\* printed that no clean data was loaded, and nothing was merged or written.
C2_NoDecodedFileGivesNone ==
    Terminated =>
        \A k \in Kinds :
            (LoadDatasetCalled(k) /\ k \notin decodedKinds) =>
                /\ data[k].tag = "None"
                /\ \/ "Error: no clean meteorological data loaded" \in printed
                   \/ "Error: no clean air quality data loaded" \in printed
                /\ combined = NoFrame
                /\ output = NoOutput

ConfigError == config # "ok"

\* C3: with fields.json missing, unparsable or without one of the two keys,
\* no loading function is ever called and no output is written.
C3_ConfigErrorAbortsBeforeDecoding ==
    ConfigError => (invoked = {} /\ output = NoOutput)

\* The run has ended on the message for a fields.json that lacks a key.
C3_Witness ==
    /\ config \in {"nomet", "noaq"}
    /\ pc = "done"
    /\ "Error: must contain both objects" \in printed

\* C4: the merged frame carries exactly the timestamps of the two frames it
\* was merged from, and a row whose timestamp only one of them has is
\* missing in every column of the other.
C4_MergeIsFullOuterJoin ==
    IsFrame(combined) =>
        LET met == data["met"]
            aq == data["aq"]
        IN  /\ KeysOf(combined) = KeysOf(met) \cup KeysOf(aq)
            /\ \A row \in RowsOf(combined) :
                /\ row["timestamp"] \notin KeysOf(aq) =>
                      \A c \in aq.cols \ {"timestamp"} : row[c] = None
                /\ row["timestamp"] \notin KeysOf(met) =>
                      \A c \in met.cols \ {"timestamp"} : row[c] = None

\* A merge of frames where the air-quality frame has a timestamp the
\* meteorological frame lacks.
C4_Witness ==
    /\ IsFrame(combined)
    /\ \E t \in KeysOf(data["aq"]) \ KeysOf(data["met"]) : t # None

\* C5: every row of a frame load_dataset returned has a timestamp.
C5_EveryRowHasTimestamp ==
    \A k \in Kinds :
        IsFrame(data[k]) => \A row \in RowsOf(data[k]) : row["timestamp"] # None

\* dfs still holds the frames data[k] was combined from.
HoldsFramesOf(k) ==
    IF k = "met" THEN kind = "aq" /\ pc = "load_dataset"
    ELSE data["aq"].tag # "unset"

HasMeasurement(row) == \E c \in DOMAIN row \ {"timestamp"} : row[c] # None

Count(rows, Keep(_)) == Cardinality({i \in 1..Len(rows) : Keep(rows[i])})

\* C6 as stated: a frame load_dataset returned has no row whose measurement
\* columns are all missing, and every decoded row with a measurement is in it.
C6_NoRowWithoutMeasurement ==
    \A k \in Kinds :
        IsFrame(data[k]) =>
            /\ \A row \in RowsOf(data[k]) : HasMeasurement(row)
            /\ HoldsFramesOf(k) =>
                  \A row \in RowsOf(Concat(dfs)) :
                      HasMeasurement(row) => row \in RowsOf(data[k])

\* C6 amended: a frame load_dataset returned has no row whose columns, the
\* timestamp included, are all missing, and it keeps every decoded row that
\* has a value in some column, as often as it was decoded.
C6_FullyMissingRowsDropped ==
    \A k \in Kinds :
        IsFrame(data[k]) =>
            /\ \A i \in 1..Len(data[k].rows) : ~AllMissing(data[k].rows[i])
            /\ HoldsFramesOf(k) =>
                  /\ \A row \in RowsOf(Concat(dfs)) :
                        ~AllMissing(row) => row \in RowsOf(data[k])
                  /\ Len(data[k].rows) =
                        Count(Concat(dfs).rows, LAMBDA row : ~AllMissing(row))

\* load_dataset has returned a frame from which a fully missing row was
\* dropped.
C6_Witness ==
    \E k \in Kinds :
        /\ IsFrame(data[k])
        /\ HoldsFramesOf(k)
        /\ \E row \in RowsOf(Concat(dfs)) : AllMissing(row)

\* The valid ranges of the quality filter: a value at or below lower, or at
\* or above upper, is invalid; None is no bound.
Thresholds ==
    [c \in {"Temperature", "Relative humidity", "NO", "NO2", "NOx", "CO",
            "CO2", "CH4"} |->
        CASE c = "Temperature" -> [lower |-> Some(-1000), upper |-> None]
          [] c = "Relative humidity" -> [lower |-> Some(0), upper |-> None]
          [] c \in {"NO", "NO2", "NOx"} -> [lower |-> Some(0), upper |-> Some(200)]
          [] c = "CO" -> [lower |-> Some(0), upper |-> Some(400)]
          [] c = "CO2" -> [lower |-> Some(0), upper |-> Some(550)]
          [] c = "CH4" -> [lower |-> Some(0), upper |-> Some(100)]]

WithinThreshold(c, cell) ==
    \/ cell = None
    \/ /\ Thresholds[c].lower # None => cell[1] > Thresholds[c].lower[1]
       /\ Thresholds[c].upper # None => cell[1] < Thresholds[c].upper[1]

\* C7: no value of a thresholded column in the written output lies at or
\* beyond its bound.
C7_OutputWithinThresholds ==
    output.state = "written" =>
        \A i \in 1..Len(output.rows) :
            \A c \in DOMAIN Thresholds \cap DOMAIN output.rows[i] :
                WithinThreshold(c, output.rows[i][c])

\* The run has ended after the merge without a written output.
WriteFailed == Terminated /\ IsFrame(combined) /\ output.state # "written"

\* C8: when writing the output failed, the failure was reported, no file is
\* left at the target path, and main returned without an exception.
C8_WriteFailureReported ==
    WriteFailed =>
        /\ "Cannot save" \in printed
        /\ output.state = "absent"
        /\ pc = "done"

ConvertedFields == {"timestamp", "temperature_outside", "wind_speed"}

Converted(f, v) ==
    CASE f = "timestamp" -> ConvertTimestampToDatetime(v)
      [] f = "temperature_outside" -> ConvertFahrenheitToCelsius(v)
      [] f = "wind_speed" -> ConvertMilesPerHourToMetersPerSecond(v)

\* C9: in load_met_file each of timestamp, temperature_outside and wind_speed
\* of a record is missing after the loop when it was missing before and holds
\* the converted value otherwise, and every other projected field is as the
\* Importer gave it.
C9_ConvertedIffNotMissing ==
    /\ Len(clean_fields) = Len(records)
    /\ \A i \in 1..Len(records) :
        /\ DOMAIN clean_fields[i] = DOMAIN MetFields
        /\ \A f \in DOMAIN MetFields :
            IF f \in ConvertedFields /\ records[i][f] # None
            THEN clean_fields[i][f] = Some(Converted(f, records[i][f][1]))
            ELSE clean_fields[i][f] = records[i][f]

\* load_met_file has converted a record with a missing timestamp and a wind
\* speed.
C9_Witness ==
    \E i \in 1..Len(records) :
        /\ records[i]["timestamp"] = None
        /\ records[i]["wind_speed"] # None
        /\ clean_fields[i]["wind_speed"] # records[i]["wind_speed"]

\* main has ended by a return, or by an exception on the way out of the
\* write of the output.
EndedAfterCreatingTmp ==
    \/ pc = "done"
    \/ pc = "crashed" /\ exc.at \in {"cleanup", "to_csv"}

\* C10: when main has ended, cleanup was called exactly once since the
\* temporary directory was created, and the directory is gone.
C10_CleanupExactlyOnce ==
    EndedAfterCreatingTmp => (cleanupCalls = 1 /\ ~tmpExists)

====
